---- MODULE Spec2Model ----
(***************************************************************************)
(* Reservation engine of the vehicle rental application: the per-vehicle   *)
(* ledger (Vehicle.__rental_periods), the per-renter lists                 *)
(* (Renter.__current_rentals / __rental_history), the engine's record list *)
(* and the rent / return operations of VehicleRental.                      *)
(*                                                                         *)
(* Dates are kept the way the code keeps them: as the strings the caller   *)
(* passed (RentalPeriod stores the original text), compared as strings     *)
(* where the code compares strings and as parsed days where the code       *)
(* compares datetime objects.  A date string is a pair of a day ordinal    *)
(* and the way the day was written (zero padded or not): strptime accepts  *)
(* both "01-01-2026" and "1-01-2026" for the same day.                     *)
(***************************************************************************)
EXTENDS Integers, Sequences, FiniteSets, TLC

VARIABLES
    vehicles,         \* VehicleRental.__vehicles: sequence of vehicle ids
    renters,          \* VehicleRental.__renters: sequence of renter ids
    rental_periods,   \* Vehicle.__rental_periods, per vehicle id
    vehicle_history,  \* Vehicle.__rental_history, per vehicle id
    current_rentals,  \* Renter.__current_rentals, per renter id
    renter_history,   \* Renter.__rental_history, per renter id
    rental_records,   \* VehicleRental.__rental_records
    next_record_id,   \* VehicleRental.__next_record_id
    calls,            \* rent_vehicles calls in flight, per request thread
    last,             \* outcome of the last completed call
    data_file         \* the pickle file at VehicleRental.__data_file

vars == <<vehicles, renters, rental_periods, vehicle_history, current_rentals,
          renter_history, rental_records, next_record_id, calls, last, data_file>>

-----------------------------------------------------------------------------
(* Bounds of the model *)

\* days of the calendar window the callers draw their dates from
MaxDay == 2

\* entries a ledger holds at most when the vehicle's methods are called directly
MaxLedger == 2

\* records the engine creates at most
MaxRecords == 2

\* longest rental, in days, a cost is quoted for
MaxDuration == 10

\* rentals a renter's history holds before the staff pages stop the renting
MaxHistory == 2

-----------------------------------------------------------------------------
(* Program constants *)

MAX_CONCURRENT_RENTALS == 5

VALID_STATUSES == {"pending", "active", "completed", "cancelled", "overdue"}

-----------------------------------------------------------------------------
(* Entities: the vehicles and renters of the test fixtures *)

VehicleIds == {"CAR001", "CAR002"}

RenterIds == {"I001", "C001"}

UserType == [I001 |-> "Individual", C001 |-> "Corporate"]

\* daily rate in cents
DailyRate == [CAR001 |-> 6500, CAR002 |-> 9500]

\* ids the callers of rent_vehicles / return_vehicles pass
CallVehicleIds == VehicleIds

CallRenterIds == RenterIds

Threads == {1, 2}

-----------------------------------------------------------------------------
(* Date strings and RentalPeriod *)

NoDate == [day |-> 0, padded |-> TRUE]

\* days that callers also write without the leading zero
UnpaddedDays == {1}

DateStrings ==
    [day : 1..MaxDay, padded : {TRUE}] \cup [day : UnpaddedDays, padded : {FALSE}]

\* datetime.strptime(date_str, "%d-%m-%Y"): the day the text denotes
strptime(s) == s.day

\* RentalPeriod.__init__: the constructor raises when start is after end
RentalPeriodValid(start_date, end_date) ==
    strptime(start_date) <= strptime(end_date)

RentalPeriods ==
    {p \in [start_date : DateStrings, end_date : DateStrings] :
        RentalPeriodValid(p.start_date, p.end_date)}

\* the periods the rent form builds: both dates written by strftime("%d-%m-%Y")
FormPeriods == {p \in RentalPeriods : p.start_date.padded /\ p.end_date.padded}

calculate_duration(p) == (strptime(p.end_date) - strptime(p.start_date)) + 1

\* overlaps_with with the bounds compared by <= : periods that only touch on one
\* day pass as disjoint
overlaps_with_open(p, other) ==
    ~(strptime(p.end_date) <= strptime(other.start_date)
      \/ strptime(other.end_date) <= strptime(p.start_date))

\* overlaps_with that tests one side only
overlaps_with_one_sided(p, other) ==
    ~(strptime(p.end_date) < strptime(other.start_date))

\* overlaps_with that asks for the other period to start inside this one
overlaps_with_start_inside(p, other) ==
    /\ strptime(p.start_date) <= strptime(other.start_date)
    /\ strptime(other.start_date) <= strptime(p.end_date)

\* RentalPeriod.overlaps_with, on the parsed dates
overlaps_with(p, other) ==
    ~(strptime(p.end_date) < strptime(other.start_date)
      \/ strptime(other.end_date) < strptime(p.start_date))

-----------------------------------------------------------------------------
(* Vehicle: the reservation ledger *)

\* the effective end that ignores the actual return date
EffectiveEnd_scheduled(e) == e.end_date

\* the end the availability check uses for a ledger entry
EffectiveEnd(e) ==
    IF e.status = "completed" /\ e.actual_end_date # NoDate
    THEN e.actual_end_date
    ELSE e.end_date

\* Vehicle.is_available: an entry whose RentalPeriod cannot be built is skipped
is_available(ledger, p) ==
    \A i \in DOMAIN ledger :
        \/ ~RentalPeriodValid(ledger[i].start_date, EffectiveEnd(ledger[i]))
        \/ ~overlaps_with(p, [start_date |-> ledger[i].start_date,
                              end_date |-> EffectiveEnd(ledger[i])])

VehicleEntry(p, renter_id) ==
    [start_date |-> p.start_date, end_date |-> p.end_date,
     duration |-> calculate_duration(p), renter_id |-> renter_id,
     status |-> "active", actual_end_date |-> NoDate]

\* Vehicle.add_rental: <<ledger, history, added>>; not added is the raise of
\* VehicleNotAvailableError
vehicle_add_rental(ledger, history, p, renter_id) ==
    IF ~is_available(ledger, p) THEN <<ledger, history, FALSE>>
    ELSE <<Append(ledger, VehicleEntry(p, renter_id)),
           Append(history, VehicleEntry(p, renter_id)),
           TRUE>>

MatchesPeriod(e, p, status) ==
    /\ e.start_date = p.start_date
    /\ e.end_date = p.end_date
    /\ e.status = status

\* index of the first entry of the list the loop's condition accepts, 0 if none
FirstMatch(list, p, status) ==
    IF \E i \in DOMAIN list : MatchesPeriod(list[i], p, status)
    THEN CHOOSE i \in DOMAIN list :
            /\ MatchesPeriod(list[i], p, status)
            /\ \A j \in 1..(i - 1) : ~MatchesPeriod(list[j], p, status)
    ELSE 0

MarkCompleted(list, i, p, actual_return_date) ==
    IF i = 0 THEN list
    ELSE [list EXCEPT ![i].status = "completed",
                      ![i].actual_end_date =
                          IF actual_return_date # NoDate THEN actual_return_date
                          ELSE p.end_date]

\* remove_rental that completes the history record and leaves the ledger entry
\* active
remove_rental_history_only(ledger, history, p, actual_return_date) ==
    LET i == FirstMatch(ledger, p, "active") IN
    IF i = 0 THEN <<ledger, history, FALSE>>
    ELSE <<ledger,
           MarkCompleted(history, FirstMatch(history, p, "active"), p, actual_return_date),
           TRUE>>

\* remove_rental that drops the returned entry from the ledger
remove_rental_deleting(ledger, history, p, actual_return_date) ==
    LET i == FirstMatch(ledger, p, "active") IN
    IF i = 0 THEN <<ledger, history, FALSE>>
    ELSE <<[k \in 1..(Len(ledger) - 1) |-> IF k < i THEN ledger[k] ELSE ledger[k + 1]],
           MarkCompleted(history, FirstMatch(history, p, "active"), p, actual_return_date),
           TRUE>>

\* Vehicle.remove_rental: <<ledger, history, found>>
remove_rental(ledger, history, p, actual_return_date) ==
    LET i == FirstMatch(ledger, p, "active") IN
    IF i = 0 THEN <<ledger, history, FALSE>>
    ELSE <<MarkCompleted(ledger, i, p, actual_return_date),
           MarkCompleted(history, FirstMatch(history, p, "active"), p, actual_return_date),
           TRUE>>

MarkActive(list, i) ==
    IF i = 0 THEN list
    ELSE [list EXCEPT ![i].status = "active", ![i].actual_end_date = NoDate]

\* Vehicle.restore_active_rental: <<ledger, history, found>>
restore_active_rental(ledger, history, p) ==
    LET i == FirstMatch(ledger, p, "completed") IN
    IF i = 0 THEN <<ledger, history, FALSE>>
    ELSE <<MarkActive(ledger, i),
           MarkActive(history, FirstMatch(history, p, "completed")),
           TRUE>>

is_currently_rented(ledger) == \E i \in DOMAIN ledger : ledger[i].status = "active"

-----------------------------------------------------------------------------
(* Cost and discount, in cents and in percent *)

\* round(x, 2) of n/d cents: to the nearest cent, ties to even
RoundDiv(n, d) ==
    LET q == n \div d
        r == n % d
    IN  IF 2 * r < d THEN q
        ELSE IF 2 * r > d THEN q + 1
        ELSE IF q % 2 = 0 THEN q ELSE q + 1

\* the discount with the long-rental threshold off by one
calculate_discount_after_7(user_type, p) ==
    CASE user_type = "Individual" -> (IF calculate_duration(p) > 7 THEN 10 ELSE 0)
      [] user_type = "Corporate" -> 15
      [] OTHER -> 0

\* IndividualUser / CorporateUser / StaffUser.calculate_discount, in percent
calculate_discount(user_type, p) ==
    CASE user_type = "Individual" -> (IF calculate_duration(p) >= 7 THEN 10 ELSE 0)
      [] user_type = "Corporate" -> 15
      [] OTHER -> 0

get_base_rental_cost(daily_rate, p) == calculate_duration(p) * daily_rate

\* apply_discount that returns the base cost
apply_discount_none(base_cost, discount_pct) == base_cost

apply_discount(base_cost, discount_pct) ==
    LET d == IF discount_pct < 0 THEN 0
             ELSE IF discount_pct > 100 THEN 100 ELSE discount_pct
    IN  RoundDiv(base_cost * (100 - d), 100)

\* the cost with 5% GST added after the discount
calculate_rental_cost_gst(daily_rate, p, discount_pct) ==
    RoundDiv(apply_discount(get_base_rental_cost(daily_rate, p), discount_pct) * 105, 100)

\* Car.calculate_rental_cost
calculate_rental_cost(daily_rate, p, discount_pct) ==
    apply_discount(get_base_rental_cost(daily_rate, p), discount_pct)

-----------------------------------------------------------------------------
(* Renter: current rentals and history *)

\* the rental dict with 5% GST added to the cost
RenterEntry_gst(vehicle_id, p, rental_cost) ==
    [vehicle_id |-> vehicle_id, start_date |-> p.start_date, end_date |-> p.end_date,
     duration |-> calculate_duration(p), cost |-> RoundDiv(rental_cost * 105, 100),
     status |-> "active"]

\* Renter.add_rental: the rental dict
RenterEntry(vehicle_id, p, rental_cost) ==
    [vehicle_id |-> vehicle_id, start_date |-> p.start_date, end_date |-> p.end_date,
     duration |-> calculate_duration(p), cost |-> rental_cost, status |-> "active"]

\* Renter.add_rental
renter_add_rental(list, vehicle_id, p, rental_cost) ==
    Append(list, RenterEntry(vehicle_id, p, rental_cost))

MatchesRental(e, vehicle_id, p) ==
    /\ e.vehicle_id = vehicle_id
    /\ e.start_date = p.start_date
    /\ e.end_date = p.end_date

FirstRental(list, vehicle_id, p, active_only) ==
    LET ok(i) == /\ MatchesRental(list[i], vehicle_id, p)
                 /\ (active_only => list[i].status = "active")
    IN  IF \E i \in DOMAIN list : ok(i)
        THEN CHOOSE i \in DOMAIN list : ok(i) /\ \A j \in 1..(i - 1) : ~ok(j)
        ELSE 0

RemoveAt(list, i) ==
    [j \in 1..(Len(list) - 1) |-> IF j < i THEN list[j] ELSE list[j + 1]]

\* Renter.complete_rental: <<current, history, found>>
complete_rental(current, history, vehicle_id, p) ==
    LET i == FirstRental(current, vehicle_id, p, FALSE)
        h == FirstRental(history, vehicle_id, p, TRUE)
    IN  IF i = 0 THEN <<current, history, FALSE>>
        ELSE <<RemoveAt(current, i),
               IF h = 0 THEN history ELSE [history EXCEPT ![h].status = "completed"],
               TRUE>>

\* can_rent_vehicle with <= in place of <
can_rent_vehicle_inclusive(current) == Len(current) <= MAX_CONCURRENT_RENTALS

can_rent_vehicle(current) == Len(current) < MAX_CONCURRENT_RENTALS

-----------------------------------------------------------------------------
(* VehicleRental: the engine *)

Range(f) == {f[i] : i \in DOMAIN f}

\* VehicleRental._find_vehicle_by_id / _find_renter_by_id: found or None
find_vehicle_by_id(vehicle_id) == vehicle_id \in Range(vehicles)

find_renter_by_id(renter_id) == renter_id \in Range(renters)

NoPeriod == [start_date |-> NoDate, end_date |-> NoDate]

IdleCall == [pc |-> "idle", vehicle_id |-> "", renter_id |-> "", period |-> NoPeriod]

\* what a call returned and which branch returned it; a confirmation names the
\* vehicle, the renter and the period, VehicleNotAvailableError the vehicle and
\* the period, any other error only its kind
Outcome(op, result, reason, vehicle_id, renter_id, p) ==
    [op |-> op, result |-> result, reason |-> reason,
     vehicle_id |-> vehicle_id, renter_id |-> renter_id, period |-> p]

Failed(op, reason) == Outcome(op, FALSE, reason, "", "", NoPeriod)

NotAvailable(op, vehicle_id, p) ==
    Outcome(op, FALSE, "vehicle_not_available", vehicle_id, "", p)

NoCall == Outcome("none", FALSE, "", "", "", NoPeriod)

\* The snapshot load_data finds at construction: the fixture's vehicles and
\* renters, with I001 holding MAX_CONCURRENT_RENTALS - 1 rentals of CAR002: one
\* for the whole of the callers' window and one-day rentals on the days after it.
SnapshotPeriod(k) ==
    IF k = 1
    THEN [start_date |-> [day |-> 1, padded |-> TRUE],
          end_date |-> [day |-> MaxDay, padded |-> TRUE]]
    ELSE [start_date |-> [day |-> MaxDay + k, padded |-> TRUE],
          end_date |-> [day |-> MaxDay + k, padded |-> TRUE]]

SnapshotLedger ==
    [k \in 1..(MAX_CONCURRENT_RENTALS - 1) |-> VehicleEntry(SnapshotPeriod(k), "I001")]

SnapshotRentals ==
    [k \in 1..(MAX_CONCURRENT_RENTALS - 1) |->
        RenterEntry("CAR002", SnapshotPeriod(k),
                    calculate_rental_cost(DailyRate["CAR002"], SnapshotPeriod(k),
                                          calculate_discount("Individual", SnapshotPeriod(k))))]

\* what a failed write leaves of the file: open(..., 'wb') has emptied it
NoData == [version |-> ""]

Truncated == [state |-> "truncated", data |-> NoData]

\* save_data without the 'next_record_id' key
save_data_without_counter(after) ==
    [state |-> "written",
     data |-> [vehicles |-> [i \in DOMAIN vehicles |->
                               [vehicle_id |-> vehicles[i],
                                rental_periods |-> after.rental_periods[vehicles[i]],
                                rental_history |-> after.vehicle_history[vehicles[i]]]],
               renters |-> [i \in DOMAIN renters |->
                              [renter_id |-> renters[i],
                               current_rentals |-> after.current_rentals[renters[i]],
                               rental_history |-> after.renter_history[renters[i]]]],
               rental_records |-> rental_records,
               version |-> "3.0"]]

\* VehicleRental.save_data when the write succeeds: the pickled dictionary of
\* the vehicle objects, the renter objects, the records and the counter
\* (save_timestamp, which nothing reads back, is left out)
save_data(after) ==
    [state |-> "written",
     data |-> [vehicles |-> [i \in DOMAIN vehicles |->
                               [vehicle_id |-> vehicles[i],
                                rental_periods |-> after.rental_periods[vehicles[i]],
                                rental_history |-> after.vehicle_history[vehicles[i]]]],
               renters |-> [i \in DOMAIN renters |->
                              [renter_id |-> renters[i],
                               current_rentals |-> after.current_rentals[renters[i]],
                               rental_history |-> after.renter_history[renters[i]]]],
               rental_records |-> rental_records,
               next_record_id |-> next_record_id,
               version |-> "3.0"]]

\* the list an object of the pickled list holds, <<>> for an id not in it
Pickled(objects, key, id, field) ==
    IF \E i \in DOMAIN objects : objects[i][key] = id
    THEN objects[CHOOSE i \in DOMAIN objects : objects[i][key] = id][field]
    ELSE <<>>

\* a VehicleRental before load_data has read anything
EmptyEngine ==
    [vehicles |-> <<>>, renters |-> <<>>,
     rental_periods |-> [v \in VehicleIds |-> <<>>],
     vehicle_history |-> [v \in VehicleIds |-> <<>>],
     current_rentals |-> [r \in RenterIds |-> <<>>],
     renter_history |-> [r \in RenterIds |-> <<>>],
     rental_records |-> <<>>, next_record_id |-> 1]

\* VehicleRental.load_data into a fresh engine: nothing is read when the file
\* is missing or cannot be unpickled, otherwise each key is read with its
\* fallback
load_data(file) ==
    IF file.state # "written"
    THEN EmptyEngine
    ELSE LET data == file.data
             vs == IF "vehicles" \in DOMAIN data THEN data.vehicles ELSE <<>>
             rs == IF "renters" \in DOMAIN data THEN data.renters ELSE <<>>
         IN  [vehicles |-> [i \in DOMAIN vs |-> vs[i].vehicle_id],
              renters |-> [i \in DOMAIN rs |-> rs[i].renter_id],
              rental_periods |->
                  [v \in VehicleIds |-> Pickled(vs, "vehicle_id", v, "rental_periods")],
              vehicle_history |->
                  [v \in VehicleIds |-> Pickled(vs, "vehicle_id", v, "rental_history")],
              current_rentals |->
                  [r \in RenterIds |-> Pickled(rs, "renter_id", r, "current_rentals")],
              renter_history |->
                  [r \in RenterIds |-> Pickled(rs, "renter_id", r, "rental_history")],
              rental_records |->
                  IF "rental_records" \in DOMAIN data THEN data.rental_records ELSE <<>>,
              next_record_id |->
                  IF "next_record_id" \in DOMAIN data THEN data.next_record_id ELSE 1]

\* the engine after construction, whatever was called last
InitEngine ==
    /\ vehicles = <<"CAR001", "CAR002">>
    /\ renters = <<"I001", "C001">>
    /\ rental_periods = [v \in VehicleIds |-> IF v = "CAR002" THEN SnapshotLedger ELSE <<>>]
    /\ vehicle_history = [v \in VehicleIds |-> IF v = "CAR002" THEN SnapshotLedger ELSE <<>>]
    /\ current_rentals = [r \in RenterIds |-> IF r = "I001" THEN SnapshotRentals ELSE <<>>]
    /\ renter_history = [r \in RenterIds |-> IF r = "I001" THEN SnapshotRentals ELSE <<>>]
    /\ rental_records = <<>>
    /\ next_record_id = 1
    /\ calls = [t \in Threads |-> IdleCall]
    /\ data_file = save_data([rental_periods |-> rental_periods,
                              vehicle_history |-> vehicle_history,
                              current_rentals |-> current_rentals,
                              renter_history |-> renter_history])

Init == InitEngine /\ last = NoCall

\* the lists a call works on and what it leaves of them
Lists(ledgers, vhistory, current, rhistory, outcome) ==
    [rental_periods |-> ledgers, vehicle_history |-> vhistory,
     current_rentals |-> current, renter_history |-> rhistory, last |-> outcome]

Unchanged(outcome) ==
    Lists(rental_periods, vehicle_history, current_rentals, renter_history, outcome)

\* rent_vehicles with the capacity check made after vehicle.add_rental and no
\* rollback of the ledger
RentVehicles_LateCapacityCheck(vehicle_id, renter_id, p) ==
    IF ~find_vehicle_by_id(vehicle_id)
    THEN Unchanged(Failed("rent", "vehicle_not_found"))
    ELSE IF ~find_renter_by_id(renter_id)
    THEN Unchanged(Failed("rent", "renter_not_found"))
    ELSE IF ~is_available(rental_periods[vehicle_id], p)
    THEN Unchanged(NotAvailable("rent", vehicle_id, p))
    ELSE LET user_discount == calculate_discount(UserType[renter_id], p)
             rental_cost == calculate_rental_cost(DailyRate[vehicle_id], p, user_discount)
             added == vehicle_add_rental(rental_periods[vehicle_id],
                                         vehicle_history[vehicle_id], p, renter_id)
         IN  IF ~can_rent_vehicle(current_rentals[renter_id])
             THEN Lists([rental_periods EXCEPT ![vehicle_id] = added[1]],
                        [vehicle_history EXCEPT ![vehicle_id] = added[2]],
                        current_rentals, renter_history,
                        Failed("rent", "max_concurrent_rentals"))
             ELSE Lists([rental_periods EXCEPT ![vehicle_id] = added[1]],
                        [vehicle_history EXCEPT ![vehicle_id] = added[2]],
                        [current_rentals EXCEPT ![renter_id] =
                            renter_add_rental(@, vehicle_id, p, rental_cost)],
                        [renter_history EXCEPT ![renter_id] =
                            renter_add_rental(@, vehicle_id, p, rental_cost)],
                        Outcome("rent", TRUE, "confirmed", vehicle_id, renter_id, p))

\* VehicleRental.rent_vehicles: the lists and the result it ends with
RentVehicles(vehicle_id, renter_id, p) ==
    IF ~find_vehicle_by_id(vehicle_id)
    THEN Unchanged(Failed("rent", "vehicle_not_found"))
    ELSE IF ~find_renter_by_id(renter_id)
    THEN Unchanged(Failed("rent", "renter_not_found"))
    ELSE IF ~can_rent_vehicle(current_rentals[renter_id])
    THEN Unchanged(Failed("rent", "max_concurrent_rentals"))
    ELSE IF ~is_available(rental_periods[vehicle_id], p)
    THEN Unchanged(NotAvailable("rent", vehicle_id, p))
    ELSE LET user_discount == calculate_discount(UserType[renter_id], p)
             rental_cost == calculate_rental_cost(DailyRate[vehicle_id], p, user_discount)
             added == vehicle_add_rental(rental_periods[vehicle_id],
                                         vehicle_history[vehicle_id], p, renter_id)
         IN  IF ~added[3]
             THEN Unchanged(NotAvailable("rent", vehicle_id, p))
             ELSE Lists([rental_periods EXCEPT ![vehicle_id] = added[1]],
                        [vehicle_history EXCEPT ![vehicle_id] = added[2]],
                        [current_rentals EXCEPT ![renter_id] =
                            renter_add_rental(@, vehicle_id, p, rental_cost)],
                        [renter_history EXCEPT ![renter_id] =
                            renter_add_rental(@, vehicle_id, p, rental_cost)],
                        Outcome("rent", TRUE, "confirmed", vehicle_id, renter_id, p))

\* return_vehicles without the is_currently_rented test and without the test
\* of remove_rental's result
ReturnVehicles_Unchecked(vehicle_id, renter_id, p) ==
    IF ~find_vehicle_by_id(vehicle_id)
    THEN Unchanged(Failed("return", "vehicle_not_found"))
    ELSE IF ~find_renter_by_id(renter_id)
    THEN Unchanged(Failed("return", "renter_not_found"))
    ELSE LET removed == remove_rental(rental_periods[vehicle_id],
                                      vehicle_history[vehicle_id], p, NoDate)
             completed == complete_rental(current_rentals[renter_id],
                                          renter_history[renter_id], vehicle_id, p)
             restored == vehicle_add_rental(removed[1], removed[2], p, renter_id)
         IN  IF ~completed[3]
             THEN Lists([rental_periods EXCEPT ![vehicle_id] = restored[1]],
                        [vehicle_history EXCEPT ![vehicle_id] = restored[2]],
                        current_rentals, renter_history,
                        Failed("return", IF restored[3] THEN "no_matching_rental"
                                         ELSE "unexpected_error"))
             ELSE Lists([rental_periods EXCEPT ![vehicle_id] = removed[1]],
                        [vehicle_history EXCEPT ![vehicle_id] = removed[2]],
                        [current_rentals EXCEPT ![renter_id] = completed[1]],
                        [renter_history EXCEPT ![renter_id] = completed[2]],
                        Outcome("return", TRUE, "confirmed", vehicle_id, renter_id, p))

\* VehicleRental.return_vehicles: the lists and the result it ends with
ReturnVehicles(vehicle_id, renter_id, p) ==
    IF ~find_vehicle_by_id(vehicle_id)
    THEN Unchanged(Failed("return", "vehicle_not_found"))
    ELSE IF ~find_renter_by_id(renter_id)
    THEN Unchanged(Failed("return", "renter_not_found"))
    ELSE IF ~is_currently_rented(rental_periods[vehicle_id])
    THEN Unchanged(Failed("return", "already_returned"))
    ELSE LET removed == remove_rental(rental_periods[vehicle_id],
                                      vehicle_history[vehicle_id], p, NoDate)
             completed == complete_rental(current_rentals[renter_id],
                                          renter_history[renter_id], vehicle_id, p)
             \* the rollback: vehicle.add_rental on the ledger as remove_rental left
             \* it; its VehicleNotAvailableError ends in the handler of Exception
             restored == vehicle_add_rental(removed[1], removed[2], p, renter_id)
         IN  IF ~removed[3]
             THEN Unchanged(Failed("return", "no_matching_period"))
             ELSE IF ~completed[3]
             THEN Lists([rental_periods EXCEPT ![vehicle_id] = restored[1]],
                        [vehicle_history EXCEPT ![vehicle_id] = restored[2]],
                        current_rentals, renter_history,
                        Failed("return", IF restored[3] THEN "no_matching_rental"
                                         ELSE "unexpected_error"))
             ELSE Lists([rental_periods EXCEPT ![vehicle_id] = removed[1]],
                        [vehicle_history EXCEPT ![vehicle_id] = removed[2]],
                        [current_rentals EXCEPT ![renter_id] = completed[1]],
                        [renter_history EXCEPT ![renter_id] = completed[2]],
                        Outcome("return", TRUE, "confirmed", vehicle_id, renter_id, p))

\* the exception a failed call ended with, "" when it returned False directly
ExceptionOf(reason) ==
    CASE reason = "vehicle_not_found" -> "VehicleNotFoundError"
      [] reason = "renter_not_found" -> "RenterNotFoundError"
      [] reason = "vehicle_not_available" -> "VehicleNotAvailableError"
      [] reason = "already_returned" -> "VehicleAlreadyReturnedError"
      [] reason = "unexpected_error" -> "VehicleNotAvailableError"
      [] OTHER -> ""

\* the classes the first except clause of a call names
ExceptClause(op) ==
    IF op = "rent"
    THEN {"VehicleNotFoundError", "RenterNotFoundError", "VehicleNotAvailableError"}
    ELSE {"VehicleNotFoundError", "RenterNotFoundError", "VehicleAlreadyReturnedError"}

\* the handlers without the final except Exception
Caught_listed_only(op, exception) == exception \in ExceptClause(op)

\* whether the handlers of a call catch the exception: the listed classes, then
\* except Exception, which every class of exceptions.py derives from
Caught(op, exception) == exception \in ExceptClause(op) \/ TRUE

\* the try block of a call around its body: an exception no handler catches
\* reaches the caller
try_except(op, after) ==
    IF ExceptionOf(after.last.reason) = "" \/ Caught(op, ExceptionOf(after.last.reason))
    THEN after
    ELSE [after EXCEPT !.last.op = "raise"]

\* how the write of save_data can end: done, open() refused (the file keeps
\* its content), or the dump broken off (the file was emptied by open)
SaveOutcomes == {"saved", "open_failed", "dump_failed"}

\* the file after save_data was called on it
after_save(file, written, io) ==
    CASE io = "saved" -> written
      [] io = "open_failed" -> file
      [] io = "dump_failed" -> Truncated

WithFile(after, file) ==
    [rental_periods |-> after.rental_periods, vehicle_history |-> after.vehicle_history,
     current_rentals |-> after.current_rentals, renter_history |-> after.renter_history,
     last |-> after.last, data_file |-> file]

\* a failed save treated as a failed call: the lists of before, result False
auto_save_rollback(after, io) ==
    IF ~after.last.result
    THEN WithFile(after, data_file)
    ELSE IF io = "saved"
    THEN WithFile(after, save_data(after))
    ELSE WithFile(Unchanged(Failed(after.last.op, "save_failed")),
                  after_save(data_file, save_data(after), io))

\* the auto-save that ends a successful call: a DataPersistenceError of
\* save_data is caught on the spot and printed as a warning, and the call goes
\* on to return True
auto_save(after, io) ==
    IF ~after.last.result
    THEN WithFile(after, data_file)
    ELSE WithFile(after, after_save(data_file, save_data(after), io))

Apply(after) ==
    /\ rental_periods' = after.rental_periods
    /\ vehicle_history' = after.vehicle_history
    /\ current_rentals' = after.current_rentals
    /\ renter_history' = after.renter_history
    /\ last' = after.last
    /\ data_file' = after.data_file

\* the body of rent_vehicles inside its try block, the auto-save ending as io
RentCall(vehicle_id, renter_id, p, io) ==
    try_except("rent", auto_save(RentVehicles(vehicle_id, renter_id, p), io))

\* the body of return_vehicles inside its try block, the auto-save ending as io
ReturnCall(vehicle_id, renter_id, p, io) ==
    try_except("return", auto_save(ReturnVehicles(vehicle_id, renter_id, p), io))

\* the outcome of the write in the specifications that do not follow the
\* file: open() refuses it and the file stays as the engine loaded it. What a
\* call does to the lists and what it returns is the same for every outcome;
\* SpecSave draws them all
ReadOnlyFile == "open_failed"

\* a rent_vehicles call run to completion, the write refused
rent_vehicles(vehicle_id, renter_id, p) ==
    /\ \A t \in Threads : calls[t].pc = "idle"
    /\ Apply(RentCall(vehicle_id, renter_id, p, ReadOnlyFile))
    /\ UNCHANGED <<vehicles, renters, rental_records, next_record_id, calls>>

\* a return_vehicles call run to completion, the write refused
return_vehicles(vehicle_id, renter_id, p) ==
    /\ \A t \in Threads : calls[t].pc = "idle"
    /\ Apply(ReturnCall(vehicle_id, renter_id, p, ReadOnlyFile))
    /\ UNCHANGED <<vehicles, renters, rental_records, next_record_id, calls>>

\* a rent_vehicles call run to completion, however the write ends
rent_vehicles_on_disk(vehicle_id, renter_id, p) ==
    /\ \A t \in Threads : calls[t].pc = "idle"
    /\ \E io \in SaveOutcomes : Apply(RentCall(vehicle_id, renter_id, p, io))
    /\ UNCHANGED <<vehicles, renters, rental_records, next_record_id, calls>>

\* a return_vehicles call run to completion, however the write ends
return_vehicles_on_disk(vehicle_id, renter_id, p) ==
    /\ \A t \in Threads : calls[t].pc = "idle"
    /\ \E io \in SaveOutcomes : Apply(ReturnCall(vehicle_id, renter_id, p, io))
    /\ UNCHANGED <<vehicles, renters, rental_records, next_record_id, calls>>

Next ==
    \/ \E v \in CallVehicleIds, r \in CallRenterIds, p \in FormPeriods :
            rent_vehicles(v, r, p)
    \/ \E v \in CallVehicleIds, r \in CallRenterIds, p \in RentalPeriods :
            return_vehicles(v, r, p)

Spec == Init /\ [][Next]_vars

\* the ids callers pass: one vehicle of the fleet and one that is not in it,
\* the renters and one id no renter has
ErrVehicleIds == {"CAR001", "CAR999"}

ErrRenterIds == RenterIds \cup {"X999"}

NextErr ==
    \/ \E v \in ErrVehicleIds, r \in ErrRenterIds, p \in FormPeriods :
            rent_vehicles(v, r, p)
    \/ \E v \in ErrVehicleIds, r \in ErrRenterIds, p \in RentalPeriods :
            return_vehicles(v, r, p)

SpecErr == Init /\ [][NextErr]_vars

-----------------------------------------------------------------------------
(* A vehicle driven through its own methods, as the return paths that pass  *)
(* an actual return date do                                                  *)

\* the dates a caller passes as actual return date; NoDate is the omitted
\* argument
ReturnDates == DateStrings \cup {NoDate}

\* vehicle.add_rental(rental_period, renter_id)
veh_add_rental(vehicle_id, p, renter_id) ==
    LET added == vehicle_add_rental(rental_periods[vehicle_id],
                                    vehicle_history[vehicle_id], p, renter_id)
    IN  /\ Len(rental_periods[vehicle_id]) < MaxLedger
        /\ rental_periods' = [rental_periods EXCEPT ![vehicle_id] = added[1]]
        /\ vehicle_history' = [vehicle_history EXCEPT ![vehicle_id] = added[2]]
        /\ last' = IF added[3] THEN Outcome("add_rental", TRUE, "added", vehicle_id, "", p)
                   ELSE NotAvailable("add_rental", vehicle_id, p)
        /\ UNCHANGED <<vehicles, renters, current_rentals, renter_history,
                       rental_records, next_record_id, calls, data_file>>

\* vehicle.remove_rental(rental_period, actual_return_date)
veh_remove_rental(vehicle_id, p, actual_return_date) ==
    LET removed == remove_rental(rental_periods[vehicle_id],
                                 vehicle_history[vehicle_id], p, actual_return_date)
    IN  /\ rental_periods' = [rental_periods EXCEPT ![vehicle_id] = removed[1]]
        /\ vehicle_history' = [vehicle_history EXCEPT ![vehicle_id] = removed[2]]
        /\ last' = Outcome("remove_rental", removed[3],
                           IF removed[3] THEN "completed" ELSE "no_matching_period",
                           vehicle_id, "", IF removed[3] THEN p ELSE NoPeriod)
        /\ UNCHANGED <<vehicles, renters, current_rentals, renter_history,
                       rental_records, next_record_id, calls, data_file>>

\* vehicle.restore_active_rental(rental_period)
veh_restore_active_rental(vehicle_id, p) ==
    LET restored == restore_active_rental(rental_periods[vehicle_id],
                                          vehicle_history[vehicle_id], p)
    IN  /\ rental_periods' = [rental_periods EXCEPT ![vehicle_id] = restored[1]]
        /\ vehicle_history' = [vehicle_history EXCEPT ![vehicle_id] = restored[2]]
        /\ last' = Outcome("restore_active_rental", restored[3],
                           IF restored[3] THEN "restored" ELSE "no_matching_period",
                           vehicle_id, "", IF restored[3] THEN p ELSE NoPeriod)
        /\ UNCHANGED <<vehicles, renters, current_rentals, renter_history,
                       rental_records, next_record_id, calls, data_file>>

NextVehicle ==
    \/ \E p \in FormPeriods : veh_add_rental("CAR001", p, "I001")
    \/ \E p \in RentalPeriods, d \in ReturnDates : veh_remove_rental("CAR001", p, d)
    \/ \E p \in RentalPeriods : veh_restore_active_rental("CAR001", p)

SpecVehicle == Init /\ [][NextVehicle]_vars

-----------------------------------------------------------------------------
(* Rental records: the engine creates them, their holders drive the status   *)

\* the strings callers pass as a status
StatusInputs == VALID_STATUSES \cup {" Active ", "COMPLETED", "returned"}

\* str.lower().strip()
lower_strip(status) ==
    CASE status = " Active " -> "active"
      [] status = "COMPLETED" -> "completed"
      [] OTHER -> status

\* RentalRecord._validate_status: the normalised status, "" for ValueError
validate_status(status) ==
    IF lower_strip(status) \in VALID_STATUSES THEN lower_strip(status) ELSE ""

\* the values datetime.now() takes, as days of the window and the day after it
Today == 1..(MaxDay + 1)

RecordOutcome(op, result, reason) == Outcome(op, result, reason, "", "", NoPeriod)

RecordFrame == UNCHANGED <<vehicles, renters, rental_periods, vehicle_history,
                           current_rentals, renter_history, calls, data_file>>

\* VehicleRental.add_rental_record, called with the cost the rent computed
add_rental_record(vehicle_id, renter_id, p) ==
    /\ next_record_id <= MaxRecords
    /\ rental_records' = Append(rental_records,
           [record_id |-> next_record_id,
            vehicle_id |-> vehicle_id,
            renter_id |-> renter_id,
            start_date |-> p.start_date,
            end_date |-> p.end_date,
            rental_cost |-> calculate_rental_cost(DailyRate[vehicle_id], p,
                                calculate_discount(UserType[renter_id], p)),
            status |-> validate_status("active")])
    /\ next_record_id' = next_record_id + 1
    /\ last' = RecordOutcome("add_rental_record", TRUE, "active")
    /\ RecordFrame

\* RentalRecord.set_status on the i-th record
SetStatus(op, i, status) ==
    /\ i \in DOMAIN rental_records
    /\ IF validate_status(status) = ""
       THEN /\ UNCHANGED rental_records
            /\ last' = RecordOutcome(op, FALSE, "invalid_status")
       ELSE /\ rental_records' = [rental_records EXCEPT ![i].status = validate_status(status)]
            /\ last' = RecordOutcome(op, TRUE, validate_status(status))
    /\ UNCHANGED next_record_id
    /\ RecordFrame

set_status(i, status) == SetStatus("set_status", i, status)

mark_as_active(i) == SetStatus("mark_as_active", i, "active")

mark_as_completed(i) == SetStatus("mark_as_completed", i, "completed")

mark_as_overdue(i) == SetStatus("mark_as_overdue", i, "overdue")

mark_as_cancelled(i) == SetStatus("mark_as_cancelled", i, "cancelled")

\* the overdue test that forgets to look at the status
is_past_due_any_status(record, today) == today > strptime(record.end_date)

\* the two conditions of check_if_overdue
is_past_due(record, today) ==
    record.status = "active" /\ today > strptime(record.end_date)

\* RentalRecord.check_if_overdue on the i-th record, datetime.now() being today
check_if_overdue(i, today) ==
    /\ i \in DOMAIN rental_records
    /\ IF is_past_due(rental_records[i], today)
       THEN /\ rental_records' = [rental_records EXCEPT ![i].status = validate_status("overdue")]
            /\ last' = RecordOutcome("check_if_overdue", TRUE, "overdue")
       ELSE /\ UNCHANGED rental_records
            /\ last' = RecordOutcome("check_if_overdue", FALSE, "not_overdue")
    /\ UNCHANGED next_record_id
    /\ RecordFrame

NextRecord ==
    \/ \E p \in FormPeriods : add_rental_record("CAR001", "I001", p)
    \/ \E i \in 1..MaxRecords, status \in StatusInputs : set_status(i, status)
    \/ \E i \in 1..MaxRecords : mark_as_active(i)
    \/ \E i \in 1..MaxRecords : mark_as_completed(i)
    \/ \E i \in 1..MaxRecords : mark_as_overdue(i)
    \/ \E i \in 1..MaxRecords : mark_as_cancelled(i)
    \/ \E i \in 1..MaxRecords, today \in Today : check_if_overdue(i, today)

SpecRecord == Init /\ [][NextRecord]_vars

\* the costs callers hand to a record, in cents: a negative one, zero and the
\* cost of one and of two days of CAR001
CostInputs == {-1000, 0, DailyRate["CAR001"], 2 * DailyRate["CAR001"]}

\* RentalRecord.__init__ with the cost given, the record joining the engine's
\* list as add_rental_record makes it; the cost is stored as it comes
RentalRecord_init(vehicle_id, renter_id, p, rental_cost) ==
    /\ next_record_id <= MaxRecords
    /\ rental_records' = Append(rental_records,
           [record_id |-> next_record_id,
            vehicle_id |-> vehicle_id,
            renter_id |-> renter_id,
            start_date |-> p.start_date,
            end_date |-> p.end_date,
            rental_cost |-> rental_cost,
            status |-> validate_status("active")])
    /\ next_record_id' = next_record_id + 1
    /\ last' = RecordOutcome("RentalRecord_init", TRUE, "active")
    /\ RecordFrame

\* RentalRecord.set_rental_cost on the i-th record: ValueError for a negative
\* cost, else the cost rounded to whole cents, which a cost in cents already is
set_rental_cost(i, rental_cost) ==
    /\ i \in DOMAIN rental_records
    /\ IF rental_cost < 0
       THEN /\ UNCHANGED rental_records
            /\ last' = RecordOutcome("set_rental_cost", FALSE, "ValueError")
       ELSE /\ rental_records' = [rental_records EXCEPT ![i].rental_cost = rental_cost]
            /\ last' = RecordOutcome("set_rental_cost", TRUE, "stored")
    /\ UNCHANGED next_record_id
    /\ RecordFrame

NextRecordCost ==
    \/ \E p \in FormPeriods, rental_cost \in CostInputs :
            RentalRecord_init("CAR001", "I001", p, rental_cost)
    \/ \E i \in 1..MaxRecords, rental_cost \in CostInputs : set_rental_cost(i, rental_cost)

SpecRecordCost == Init /\ [][NextRecordCost]_vars

\* rentals, returns and records on one vehicle, each successful call ending
\* with its auto-save
NextSave ==
    \/ \E p \in FormPeriods : rent_vehicles_on_disk("CAR001", "C001", p)
    \/ \E p \in FormPeriods : return_vehicles_on_disk("CAR001", "C001", p)
    \/ add_rental_record("CAR001", "C001",
                         [start_date |-> [day |-> 1, padded |-> TRUE],
                          end_date |-> [day |-> 1, padded |-> TRUE]])

SpecSave == Init /\ [][NextSave]_vars

-----------------------------------------------------------------------------
(* rent_vehicles called from the request threads of the server: the engine   *)
(* is one shared object and takes no lock, so the threads' steps interleave  *)

ConcFrame == UNCHANGED <<vehicles, renters, rental_records, next_record_id, data_file>>

\* rent_vehicles up to the cost computation: lookups, capacity check and
\* availability check
rent_check(t, vehicle_id, renter_id, p) ==
    LET before == RentVehicles(vehicle_id, renter_id, p) IN
    /\ calls[t].pc = "idle"
    /\ IF before.last.result
       THEN /\ calls' = [calls EXCEPT ![t] = [pc |-> "add_rental", vehicle_id |-> vehicle_id,
                                             renter_id |-> renter_id, period |-> p]]
            /\ UNCHANGED last
       ELSE /\ last' = before.last
            /\ UNCHANGED calls
    /\ UNCHANGED <<rental_periods, vehicle_history, current_rentals, renter_history>>
    /\ ConcFrame

\* vehicle.add_rental, its is_available test
add_rental_check(t) ==
    /\ calls[t].pc = "add_rental"
    /\ IF is_available(rental_periods[calls[t].vehicle_id], calls[t].period)
       THEN /\ calls' = [calls EXCEPT ![t].pc = "append"]
            /\ UNCHANGED last
       ELSE /\ calls' = [calls EXCEPT ![t] = IdleCall]
            /\ last' = NotAvailable("rent", calls[t].vehicle_id, calls[t].period)
    /\ UNCHANGED <<rental_periods, vehicle_history, current_rentals, renter_history>>
    /\ ConcFrame

\* vehicle.add_rental, the two appends
add_rental_append(t) ==
    LET c == calls[t] IN
    /\ c.pc = "append"
    /\ rental_periods' = [rental_periods EXCEPT ![c.vehicle_id] =
                              Append(@, VehicleEntry(c.period, c.renter_id))]
    /\ vehicle_history' = [vehicle_history EXCEPT ![c.vehicle_id] =
                              Append(@, VehicleEntry(c.period, c.renter_id))]
    /\ calls' = [calls EXCEPT ![t].pc = "renter_add_rental"]
    /\ UNCHANGED <<current_rentals, renter_history, last>>
    /\ ConcFrame

\* renter.add_rental and the return of True
rent_finish(t) ==
    LET c == calls[t]
        rental_cost == calculate_rental_cost(DailyRate[c.vehicle_id], c.period,
                           calculate_discount(UserType[c.renter_id], c.period))
    IN
    /\ c.pc = "renter_add_rental"
    /\ current_rentals' = [current_rentals EXCEPT ![c.renter_id] =
                              renter_add_rental(@, c.vehicle_id, c.period, rental_cost)]
    /\ renter_history' = [renter_history EXCEPT ![c.renter_id] =
                              renter_add_rental(@, c.vehicle_id, c.period, rental_cost)]
    /\ calls' = [calls EXCEPT ![t] = IdleCall]
    /\ last' = Outcome("rent", TRUE, "confirmed", c.vehicle_id, c.renter_id, c.period)
    /\ UNCHANGED <<rental_periods, vehicle_history>>
    /\ data_file' = auto_save(Lists(rental_periods', vehicle_history',
                                    current_rentals', renter_history', last'),
                              ReadOnlyFile).data_file
    /\ UNCHANGED <<vehicles, renters, rental_records, next_record_id>>

NextConc ==
    \/ \E t \in Threads, r \in CallRenterIds, p \in FormPeriods :
            rent_check(t, "CAR001", r, p)
    \/ \E t \in Threads : add_rental_check(t)
    \/ \E t \in Threads : add_rental_append(t)
    \/ \E t \in Threads : rent_finish(t)

SpecConc == Init /\ [][NextConc]_vars

-----------------------------------------------------------------------------
(* The cost of a rental: the quote rent_vehicles computes, and the           *)
(* settlement of a return made with an actual return date                    *)

UserTypes == {"Individual", "Corporate", "Staff"}

\* daily rates of the cars the tests create, in cents
DailyRates == {5500, 6500, 9500}

Day(d) == [day |-> d, padded |-> TRUE]

\* the periods a cost is quoted for
QuotePeriods ==
    {p \in [start_date : {Day(d) : d \in 1..2}, end_date : {Day(d) : d \in 1..MaxDuration}] :
        RentalPeriodValid(p.start_date, p.end_date)}

QuoteInput(user_type, daily_rate, p) ==
    [op |-> "input", user_type |-> user_type, daily_rate |-> daily_rate, period |-> p]

\* the engine with a renter of some type about to rent a car at some rate
InitCost ==
    /\ InitEngine
    /\ last \in {QuoteInput(u, d, p) : u \in UserTypes, d \in DailyRates, p \in QuotePeriods}

CostFrame == UNCHANGED <<vehicles, renters, rental_periods, vehicle_history,
                         current_rentals, renter_history, rental_records,
                         next_record_id, calls, data_file>>

\* rent_vehicles, the discount and the cost it computes for the rental
quote_rental ==
    /\ last.op = "input"
    /\ last' = [op |-> "quote", user_type |-> last.user_type,
                daily_rate |-> last.daily_rate, period |-> last.period,
                user_discount |-> calculate_discount(last.user_type, last.period),
                rental_cost |-> calculate_rental_cost(last.daily_rate, last.period,
                                    calculate_discount(last.user_type, last.period))]
    /\ CostFrame

\* early, on-time or overdue, from the actual return date and the scheduled end
return_type(p, actual_return_date) ==
    IF strptime(actual_return_date) < strptime(p.end_date) THEN "early"
    ELSE IF strptime(actual_return_date) = strptime(p.end_date) THEN "on-time"
    ELSE "overdue"

\* the period actually used: from the start to the actual return date
ActualPeriod(p, actual_return_date) ==
    [start_date |-> p.start_date, end_date |-> actual_return_date]

\* the settlement of a return: the actual days are charged at the daily rate and
\* the discount of the rental
return_vehicle_with_date(actual_return_date) ==
    LET p == last.period
        final == calculate_rental_cost(last.daily_rate,
                     ActualPeriod(p, actual_return_date), last.user_discount)
    IN
    /\ last.op = "quote"
    /\ RentalPeriodValid(p.start_date, actual_return_date)
    /\ last' = [op |-> "return", user_type |-> last.user_type,
                daily_rate |-> last.daily_rate, period |-> p,
                user_discount |-> last.user_discount,
                actual_return_date |-> actual_return_date,
                return_type |-> return_type(p, actual_return_date),
                original_cost |-> last.rental_cost,
                final_cost |-> final,
                refund |-> IF final < last.rental_cost THEN last.rental_cost - final ELSE 0,
                penalty |-> IF final > last.rental_cost THEN final - last.rental_cost ELSE 0]
    /\ CostFrame

NextCost ==
    \/ quote_rental
    \/ \E d \in 1..(MaxDuration + 1) : return_vehicle_with_date(Day(d))

SpecCost == InitCost /\ [][NextCost]_vars

-----------------------------------------------------------------------------
(* Two RentalPeriod objects: construction, the setters and overlaps_with     *)

PeriodFrame == UNCHANGED <<vehicles, renters, rental_periods, vehicle_history,
                           current_rentals, renter_history, rental_records,
                           next_record_id, calls, data_file>>

\* two periods the constructor accepted
InitPeriod ==
    /\ InitEngine
    /\ last \in {[op |-> "RentalPeriod", p |-> p, q |-> q] : p, q \in RentalPeriods}

\* set_start_date that writes the date without comparing it with the end
SetStartDate_unvalidated(p, start_date) ==
    [raised |-> FALSE, p |-> [p EXCEPT !.start_date = start_date]]

\* RentalPeriod.set_start_date on p: whether it raised InvalidRentalPeriodError
\* and the period it leaves
SetStartDate(p, start_date) ==
    IF strptime(start_date) > strptime(p.end_date)
    THEN [raised |-> TRUE, p |-> p]
    ELSE [raised |-> FALSE, p |-> [p EXCEPT !.start_date = start_date]]

\* RentalPeriod.set_end_date on p
SetEndDate(p, end_date) ==
    IF strptime(p.start_date) > strptime(end_date)
    THEN [raised |-> TRUE, p |-> p]
    ELSE [raised |-> FALSE, p |-> [p EXCEPT !.end_date = end_date]]

\* p = RentalPeriod(start_date, end_date): p is bound to the new period unless
\* the constructor raised
RentalPeriod_init(start_date, end_date) ==
    /\ last.op # "overlaps_with"
    /\ last' = IF RentalPeriodValid(start_date, end_date)
               THEN [last EXCEPT !.op = "RentalPeriod",
                                 !.p = [start_date |-> start_date, end_date |-> end_date]]
               ELSE [last EXCEPT !.op = "InvalidRentalPeriodError"]
    /\ PeriodFrame

\* p.set_start_date(start_date): the period is written when the date is accepted
set_start_date(start_date) ==
    /\ last.op # "overlaps_with"
    /\ last' = IF SetStartDate(last.p, start_date).raised
               THEN [last EXCEPT !.op = "InvalidRentalPeriodError"]
               ELSE [last EXCEPT !.op = "set_start_date",
                                 !.p = SetStartDate(last.p, start_date).p]
    /\ PeriodFrame

\* p.set_end_date(end_date)
set_end_date(end_date) ==
    /\ last.op # "overlaps_with"
    /\ last' = IF SetEndDate(last.p, end_date).raised
               THEN [last EXCEPT !.op = "InvalidRentalPeriodError"]
               ELSE [last EXCEPT !.op = "set_end_date",
                                 !.p = SetEndDate(last.p, end_date).p]
    /\ PeriodFrame

\* p.overlaps_with(q), q.overlaps_with(p) and p.overlaps_with(p)
compare_periods ==
    /\ last.op # "overlaps_with"
    /\ last' = [op |-> "overlaps_with", p |-> last.p, q |-> last.q,
                p_q |-> overlaps_with(last.p, last.q),
                q_p |-> overlaps_with(last.q, last.p),
                p_p |-> overlaps_with(last.p, last.p)]
    /\ PeriodFrame

NextPeriod ==
    \/ \E a, b \in DateStrings : RentalPeriod_init(a, b)
    \/ \E d \in DateStrings : set_start_date(d)
    \/ \E d \in DateStrings : set_end_date(d)
    \/ compare_periods

SpecPeriod == InitPeriod /\ [][NextPeriod]_vars

-----------------------------------------------------------------------------
(* The staff pages: vehicles and users added and deleted on the engine that  *)
(* serves the rent and return requests                                       *)

\* the user id of the staff session that sends the requests
StaffSessions == {"S001"}

RemoveId(list, id) ==
    LET i == CHOOSE i \in DOMAIN list : list[i] = id /\ \A j \in 1..(i - 1) : list[j] # id
    IN  RemoveAt(list, i)

\* add_vehicles without the search for the id
AddVehicles_unchecked(vehicle_id) ==
    [raised |-> "", vehicles |-> Append(vehicles, vehicle_id)]

\* VehicleRental.add_vehicles up to the append: the exception it raised, "" for
\* none, and the vehicle list it leaves
AddVehicles(vehicle_id) ==
    IF find_vehicle_by_id(vehicle_id)
    THEN [raised |-> "DuplicateVehicleError", vehicles |-> vehicles]
    ELSE [raised |-> "", vehicles |-> Append(vehicles, vehicle_id)]

\* VehicleRental.add_users up to the append
AddUsers(renter_id) ==
    IF find_renter_by_id(renter_id)
    THEN [raised |-> "DuplicateRenterError", renters |-> renters]
    ELSE [raised |-> "", renters |-> Append(renters, renter_id)]

StaffOutcome(op, result, reason, vehicle_id, renter_id) ==
    Outcome(op, result, reason, vehicle_id, renter_id, NoPeriod)

\* the lists of the engine as the next state holds them, pickled
SavedNext(io) ==
    data_file' = after_save(data_file,
                     save_data([rental_periods |-> rental_periods,
                                vehicle_history |-> vehicle_history,
                                current_rentals |-> current_rentals,
                                renter_history |-> renter_history])', io)

\* staff_add_vehicle: add_vehicles on a new Vehicle object, its auto-save, and
\* the route's except Exception around the call
add_vehicles(vehicle_id, io) ==
    /\ \A t \in Threads : calls[t].pc = "idle"
    /\ vehicles' = AddVehicles(vehicle_id).vehicles
    /\ IF AddVehicles(vehicle_id).raised # ""
       THEN /\ last' = StaffOutcome("add_vehicles", FALSE, AddVehicles(vehicle_id).raised,
                                    vehicle_id, "")
            /\ UNCHANGED <<rental_periods, vehicle_history, data_file>>
       ELSE /\ last' = StaffOutcome("add_vehicles", TRUE, "added", vehicle_id, "")
            /\ rental_periods' = [rental_periods EXCEPT ![vehicle_id] = <<>>]
            /\ vehicle_history' = [vehicle_history EXCEPT ![vehicle_id] = <<>>]
            /\ UNCHANGED <<renters, current_rentals, renter_history, rental_records,
                           next_record_id>>
            /\ SavedNext(io)
    /\ UNCHANGED <<renters, current_rentals, renter_history, rental_records,
                   next_record_id, calls>>

\* staff_add_user: add_users on a new renter object
add_users(renter_id, io) ==
    /\ \A t \in Threads : calls[t].pc = "idle"
    /\ renters' = AddUsers(renter_id).renters
    /\ IF AddUsers(renter_id).raised # ""
       THEN /\ last' = StaffOutcome("add_users", FALSE, AddUsers(renter_id).raised,
                                    "", renter_id)
            /\ UNCHANGED <<current_rentals, renter_history, data_file>>
       ELSE /\ last' = StaffOutcome("add_users", TRUE, "added", "", renter_id)
            /\ current_rentals' = [current_rentals EXCEPT ![renter_id] = <<>>]
            /\ renter_history' = [renter_history EXCEPT ![renter_id] = <<>>]
            /\ UNCHANGED <<vehicles, rental_periods, vehicle_history, rental_records,
                           next_record_id>>
            /\ SavedNext(io)
    /\ UNCHANGED <<vehicles, rental_periods, vehicle_history, rental_records,
                   next_record_id, calls>>

\* staff_delete_vehicle that removes the vehicle whatever its ledger holds
DeleteVehicle_unchecked(vehicle_id) ==
    IF ~find_vehicle_by_id(vehicle_id)
    THEN [reason |-> "vehicle_not_found", vehicles |-> vehicles]
    ELSE [reason |-> "deleted", vehicles |-> RemoveId(vehicles, vehicle_id)]

\* staff_delete_vehicle up to the save: what it flashes and the vehicle list
DeleteVehicle(vehicle_id) ==
    IF ~find_vehicle_by_id(vehicle_id)
    THEN [reason |-> "vehicle_not_found", vehicles |-> vehicles]
    ELSE IF is_currently_rented(rental_periods[vehicle_id])
    THEN [reason |-> "currently_rented", vehicles |-> vehicles]
    ELSE [reason |-> "deleted", vehicles |-> RemoveId(vehicles, vehicle_id)]

\* the staff_delete_vehicle route: the Vehicle object leaves the list with its
\* ledger, and save_data is called with no handler around it, so that a
\* DataPersistenceError leaves the route after the removal
staff_delete_vehicle(vehicle_id, io) ==
    /\ \A t \in Threads : calls[t].pc = "idle"
    /\ vehicles' = DeleteVehicle(vehicle_id).vehicles
    /\ IF DeleteVehicle(vehicle_id).reason # "deleted"
       THEN /\ last' = StaffOutcome("staff_delete_vehicle", FALSE,
                                    DeleteVehicle(vehicle_id).reason, vehicle_id, "")
            /\ UNCHANGED <<rental_periods, vehicle_history, data_file>>
       ELSE /\ rental_periods' = [rental_periods EXCEPT ![vehicle_id] = <<>>]
            /\ vehicle_history' = [vehicle_history EXCEPT ![vehicle_id] = <<>>]
            /\ UNCHANGED <<renters, current_rentals, renter_history, rental_records,
                           next_record_id>>
            /\ SavedNext(io)
            /\ last' = StaffOutcome(IF io = "saved" THEN "staff_delete_vehicle" ELSE "raise",
                                    TRUE, "deleted", vehicle_id, "")
    /\ UNCHANGED <<renters, current_rentals, renter_history, rental_records,
                   next_record_id, calls>>

\* staff_delete_user up to the save: what it flashes and the renter list
DeleteUser(user_id, session_user_id) ==
    IF user_id = session_user_id
    THEN [reason |-> "own_account", renters |-> renters]
    ELSE IF ~find_renter_by_id(user_id)
    THEN [reason |-> "renter_not_found", renters |-> renters]
    ELSE [reason |-> "deleted", renters |-> RemoveId(renters, user_id)]

\* the staff_delete_user route
staff_delete_user(user_id, session_user_id, io) ==
    /\ \A t \in Threads : calls[t].pc = "idle"
    /\ renters' = DeleteUser(user_id, session_user_id).renters
    /\ IF DeleteUser(user_id, session_user_id).reason # "deleted"
       THEN /\ last' = StaffOutcome("staff_delete_user", FALSE,
                                    DeleteUser(user_id, session_user_id).reason, "", user_id)
            /\ UNCHANGED <<current_rentals, renter_history, data_file>>
       ELSE /\ current_rentals' = [current_rentals EXCEPT ![user_id] = <<>>]
            /\ renter_history' = [renter_history EXCEPT ![user_id] = <<>>]
            /\ UNCHANGED <<vehicles, rental_periods, vehicle_history, rental_records,
                           next_record_id>>
            /\ SavedNext(io)
            /\ last' = StaffOutcome(IF io = "saved" THEN "staff_delete_user" ELSE "raise",
                                    TRUE, "deleted", "", user_id)
    /\ UNCHANGED <<vehicles, rental_periods, vehicle_history, rental_records,
                   next_record_id, calls>>

\* the requests of the staff pages and of the renters, the write refused as
\* in Spec
NextStaff ==
    \/ \E v \in VehicleIds : add_vehicles(v, ReadOnlyFile)
    \/ \E r \in RenterIds : add_users(r, ReadOnlyFile)
    \/ \E v \in VehicleIds : staff_delete_vehicle(v, ReadOnlyFile)
    \/ \E r \in {"C001"} \cup StaffSessions, u \in StaffSessions :
            staff_delete_user(r, u, ReadOnlyFile)
    \/ \E p \in FormPeriods :
            /\ Len(renter_history["C001"]) < MaxHistory
            /\ rent_vehicles("CAR001", "C001", p)
    \/ \E r \in RenterIds, p \in FormPeriods : return_vehicles("CAR001", r, p)

SpecStaff == Init /\ [][NextStaff]_vars

-----------------------------------------------------------------------------
(* Authentication: the user objects and authenticate_user *)

\* the ids of the user objects the login form is tried against
UserIds == RenterIds \cup StaffSessions

UserClass == [I001 |-> "IndividualUser", C001 |-> "CorporateUser", S001 |-> "StaffUser"]

\* the password argument each user object is constructed with
PasswordArg == [I001 |-> "pass123", C001 |-> "corp456", S001 |-> "admin789"]

\* the default of Renter.__init__'s password parameter
DefaultPassword == "password123"

\* the private password fields after __init__: IndividualUser and CorporateUser
\* hand the password to Renter.__init__, StaffUser calls it without one and
\* keeps the password in a field of its own
RenterInit(class, password) ==
    IF class = "StaffUser"
    THEN [class |-> class, Renter__password |-> DefaultPassword,
          StaffUser__password |-> password]
    ELSE [class |-> class, Renter__password |-> password,
          StaffUser__password |-> ""]

UserObject(renter_id) == RenterInit(UserClass[renter_id], PasswordArg[renter_id])

\* verify_password as Renter defines it, for every class
verify_password_of_Renter(user, password) == user.Renter__password = password

\* Renter.verify_password, and StaffUser's override of it
verify_password(user, password) ==
    IF user.class = "StaffUser"
    THEN user.StaffUser__password = password
    ELSE user.Renter__password = password

\* VehicleRental.authenticate_user: the id of the renter returned, "" for None
AuthenticateUser(renter_id, password) ==
    IF find_renter_by_id(renter_id) /\ verify_password(UserObject(renter_id), password)
    THEN renter_id
    ELSE ""

authenticate_user(renter_id, password) ==
    /\ \A t \in Threads : calls[t].pc = "idle"
    /\ last' = [StaffOutcome("authenticate_user",
                              AuthenticateUser(renter_id, password) # "",
                              password, "", AuthenticateUser(renter_id, password))
                 EXCEPT !.period = [start_date |-> NoDate, end_date |-> NoDate,
                                    asked |-> renter_id]]
    /\ UNCHANGED <<vehicles, renters, rental_periods, vehicle_history, current_rentals,
                   renter_history, rental_records, next_record_id, calls, data_file>>

\* what is typed into the login form: the users' ids and one nobody has, the
\* users' passwords, the default one and a wrong one
LoginIds == UserIds \cup {"X999"}

LoginPasswords == {"pass123", "corp456", "admin789", DefaultPassword, "wrongpass"}

NextAuth ==
    \/ \E r \in UserIds : add_users(r, ReadOnlyFile)
    \/ \E r \in RenterIds, u \in StaffSessions : staff_delete_user(r, u, ReadOnlyFile)
    \/ \E r \in LoginIds, password \in LoginPasswords : authenticate_user(r, password)

SpecAuth == Init /\ [][NextAuth]_vars

-----------------------------------------------------------------------------
(* Vocabulary of the properties *)

\* the calendar days of a closed interval of date strings (empty when start is
\* after end)
DaysOf(start_date, end_date) == strptime(start_date)..strptime(end_date)

\* the days a ledger entry stands for: its scheduled interval while active, the
\* interval up to the actual return once completed
CoveredDays(e) ==
    IF e.status = "active" THEN DaysOf(e.start_date, e.end_date)
    ELSE DaysOf(e.start_date, e.actual_end_date)

ActiveEntries(ledger) == {i \in DOMAIN ledger : ledger[i].status = "active"}

\* number of active entries of v's ledger that name r for the given dates
LedgerCount(v, r, start_date, end_date) ==
    Cardinality({i \in ActiveEntries(rental_periods[v]) :
        /\ rental_periods[v][i].renter_id = r
        /\ rental_periods[v][i].start_date = start_date
        /\ rental_periods[v][i].end_date = end_date})

\* number of current rentals of r that name v for the given dates
RenterCount(r, v, start_date, end_date) ==
    Cardinality({k \in DOMAIN current_rentals[r] :
        /\ current_rentals[r][k].vehicle_id = v
        /\ current_rentals[r][k].start_date = start_date
        /\ current_rentals[r][k].end_date = end_date})

RentSucceeded(o) == o.op = "rent" /\ o.result

RentFailed(o) == o.op = "rent" /\ ~o.result

ReturnSucceeded(o) == o.op = "return" /\ o.result

\* the return call found the period in the vehicle's ledger and no matching
\* rental in the renter's list
RenterSideFailed(o) ==
    o.op = "return" /\ ~o.result /\ o.reason \in {"no_matching_rental", "unexpected_error"}

-----------------------------------------------------------------------------
(* C1 *)

\* C1: no vehicle's ledger ever holds two active entries whose closed date
\* intervals share a day.
C1_NoOverlappingActive ==
    \A v \in VehicleIds :
        \A i, j \in ActiveEntries(rental_periods[v]) :
            i # j => CoveredDays(rental_periods[v][i]) \cap CoveredDays(rental_periods[v][j]) = {}

\* a rent of CAR001 was just refused for a period that overlaps, without being
\* equal to, the period of an active entry of CAR001
C1_Witness ==
    /\ RentFailed(last) /\ last.reason = "vehicle_not_available"
    /\ last.vehicle_id = "CAR001"
    /\ \E i \in ActiveEntries(rental_periods["CAR001"]) :
        LET e == rental_periods["CAR001"][i] IN
        /\ CoveredDays(e) \cap DaysOf(last.period.start_date, last.period.end_date) # {}
        /\ CoveredDays(e) # DaysOf(last.period.start_date, last.period.end_date)

-----------------------------------------------------------------------------
(* C2 *)

\* C2: a return_vehicles call whose vehicle-side completion succeeds and whose
\* renter-side complete_rental finds nothing returns False and leaves every
\* ledger as it was before the call.
C2_RollbackRestoresLedger ==
    [][RenterSideFailed(last') =>
        /\ ~last'.result
        /\ rental_periods' = rental_periods]_vars

-----------------------------------------------------------------------------
(* C3 *)

\* C3: for every vehicle v and renter r the active entries of v's ledger that
\* name r and the current rentals of r that name v correspond one to one, with
\* the same start and end dates.
C3_LedgersAgreeWithRenters ==
    \A v \in VehicleIds, r \in RenterIds :
        /\ \A i \in ActiveEntries(rental_periods[v]) :
            LET e == rental_periods[v][i] IN
            e.renter_id = r =>
                LedgerCount(v, r, e.start_date, e.end_date)
                    = RenterCount(r, v, e.start_date, e.end_date)
        /\ \A k \in DOMAIN current_rentals[r] :
            LET c == current_rentals[r][k] IN
            c.vehicle_id = v =>
                LedgerCount(v, r, c.start_date, c.end_date)
                    = RenterCount(r, v, c.start_date, c.end_date)

-----------------------------------------------------------------------------
(* C4 *)

\* C4: a rent_vehicles call that returns False leaves every vehicle's ledger
\* unchanged, so is_available answers as before for every period.
C4_FailedRentLeavesLedger ==
    [][RentFailed(last') =>
        /\ rental_periods' = rental_periods
        /\ \A v \in VehicleIds, p \in RentalPeriods :
            is_available(rental_periods'[v], p) = is_available(rental_periods[v], p)]_vars

\* a rent was just refused because the renter holds the maximum, while CAR001
\* still has a free period
C4_Witness ==
    /\ RentFailed(last) /\ last.reason = "max_concurrent_rentals"
    /\ \E p \in FormPeriods : is_available(rental_periods["CAR001"], p)

-----------------------------------------------------------------------------
(* C5 *)

\* C5: every renter's current-rentals list holds at most 5 entries.
C5_AtMostFiveCurrentRentals ==
    \A r \in RenterIds : Len(current_rentals[r]) <= 5

\* I001 holds 5 current rentals and a further rent was just refused for that
\* reason, with a period of CAR001 still free
C5_Witness ==
    /\ Len(current_rentals["I001"]) = 5
    /\ RentFailed(last) /\ last.reason = "max_concurrent_rentals"
    /\ \E p \in FormPeriods : is_available(rental_periods["CAR001"], p)

-----------------------------------------------------------------------------
(* C7 *)

\* the step is a successful return_vehicles(v, r, p) that directly follows the
\* successful rent_vehicles(v, r, p)
RoundTrip ==
    /\ RentSucceeded(last) /\ ReturnSucceeded(last')
    /\ last'.vehicle_id = last.vehicle_id
    /\ last'.renter_id = last.renter_id
    /\ last'.period = last.period

HasDates(e, p) == e.start_date = p.start_date /\ e.end_date = p.end_date

\* C7 as stated: after rent_vehicles(v, r, p) and then return_vehicles(v, r, p)
\* succeed, v is not currently rented and is available for every period that
\* does not overlap p.
C7_RoundTripFreesVehicle ==
    [][RoundTrip =>
        LET after == rental_periods'[last'.vehicle_id]
            p == last'.period
        IN  /\ ~is_currently_rented(after)
            /\ \A q \in RentalPeriods :
                DaysOf(q.start_date, q.end_date) \cap DaysOf(p.start_date, p.end_date) = {}
                    => is_available(after, q)]_vars

\* C7 amended: after the round trip v holds no active entry for p, it is
\* currently rented exactly when it holds another active entry, and it is
\* available for every period that overlaps no entry of its ledger; and a rent
\* is refused as not available only for a period that overlaps an entry.
C7_RoundTripRestores ==
    [][/\ RoundTrip =>
            LET before == rental_periods[last'.vehicle_id]
                after == rental_periods'[last'.vehicle_id]
                p == last'.period
            IN  /\ \A i \in ActiveEntries(after) : ~HasDates(after[i], p)
                /\ is_currently_rented(after)
                     <=> \E i \in ActiveEntries(before) : ~HasDates(before[i], p)
                /\ \A q \in RentalPeriods :
                    (\A i \in DOMAIN after :
                        CoveredDays(after[i]) \cap DaysOf(q.start_date, q.end_date) = {})
                        => is_available(after, q)
       /\ (RentFailed(last') /\ last'.reason = "vehicle_not_available") =>
            \E i \in DOMAIN rental_periods[last'.vehicle_id] :
                CoveredDays(rental_periods[last'.vehicle_id][i])
                    \cap DaysOf(last'.period.start_date, last'.period.end_date) # {}]_vars

\* CAR001 was rented and returned, and the rent of a disjoint period that
\* followed has just succeeded
C7_Witness ==
    /\ RentSucceeded(last) /\ last.vehicle_id = "CAR001"
    /\ Len(rental_periods["CAR001"]) = 2
    /\ rental_periods["CAR001"][1].status = "completed"
    /\ rental_periods["CAR001"][2].status = "active"
    /\ HasDates(rental_periods["CAR001"][2], last.period)
    /\ CoveredDays(rental_periods["CAR001"][1]) \cap CoveredDays(rental_periods["CAR001"][2]) = {}

-----------------------------------------------------------------------------
(* C8 *)

\* C8: a rent_vehicles call that returns True adds exactly one RentalRecord,
\* active and with the vehicle id, renter id, period and cost of the rental; a
\* failed rent adds none.
C8_RentAddsOneRecord ==
    [][/\ RentSucceeded(last') =>
            /\ Len(rental_records') = Len(rental_records) + 1
            /\ LET rec == rental_records'[Len(rental_records')]
                   rental == current_rentals'[last'.renter_id][Len(current_rentals'[last'.renter_id])]
               IN  /\ rec.status = "active"
                   /\ rec.vehicle_id = last'.vehicle_id
                   /\ rec.renter_id = last'.renter_id
                   /\ rec.start_date = last'.period.start_date
                   /\ rec.end_date = last'.period.end_date
                   /\ rec.rental_cost = rental.cost
       /\ RentFailed(last') => rental_records' = rental_records]_vars


\* days of the entries of a ledger other than entry i
OtherDays(ledger, i) ==
    UNION {CoveredDays(ledger[j]) : j \in DOMAIN ledger \ {i}}

\* C10: is_available(p) is False exactly when p shares a day with some ledger
\* entry, an active entry covering [start, scheduled end] and a completed one
\* [start, actual return date]; so every period inside the days between an
\* early actual return and the scheduled end is available again unless another
\* entry covers one of its days.
C10_AvailableIffNoOverlap ==
    \A v \in VehicleIds :
        /\ \A p \in RentalPeriods :
               is_available(rental_periods[v], p)
                   <=> \A i \in DOMAIN rental_periods[v] :
                           CoveredDays(rental_periods[v][i]) \cap DaysOf(p.start_date, p.end_date) = {}
        /\ \A i \in DOMAIN rental_periods[v] :
               LET e == rental_periods[v][i] IN
               (e.status = "completed" /\ strptime(e.actual_end_date) < strptime(e.end_date)) =>
                   \A p \in RentalPeriods :
                       ( /\ strptime(p.start_date) > strptime(e.actual_end_date)
                         /\ strptime(p.start_date) >= strptime(e.start_date)
                         /\ strptime(p.end_date) <= strptime(e.end_date)
                         /\ DaysOf(p.start_date, p.end_date) \cap OtherDays(rental_periods[v], i) = {} )
                       => is_available(rental_periods[v], p)

\* a rental returned before its scheduled end, and a later rental booked inside
\* the days the early return freed
C10_Witness ==
    /\ last.op = "add_rental" /\ last.result
    /\ \E i, j \in DOMAIN rental_periods["CAR001"] :
           LET e == rental_periods["CAR001"][i]
               f == rental_periods["CAR001"][j]
           IN  /\ e.status = "completed"
               /\ strptime(e.start_date) <= strptime(e.actual_end_date)
               /\ strptime(e.actual_end_date) < strptime(e.end_date)
               /\ f.status = "active"
               /\ strptime(f.start_date) > strptime(e.actual_end_date)
               /\ strptime(f.end_date) <= strptime(e.end_date)

\* how far along pending -> active -> {completed, cancelled, overdue} a status is
StatusRank(status) ==
    CASE status = "pending" -> 0
      [] status = "active" -> 1
      [] OTHER -> 2

\* C9 as the specification states it: no call moves a record's status backward
\* along pending -> active -> {completed, cancelled, overdue}.
C9_StatusNeverMovesBack ==
    [][\A i \in DOMAIN rental_records :
           StatusRank(rental_records'[i].status) >= StatusRank(rental_records[i].status)]_vars

\* C9: a record's status is always one of the five valid statuses;
\* check_if_overdue changes it only from active to overdue, mark_as_completed,
\* mark_as_cancelled and mark_as_overdue only forward to the status they name,
\* and a status moves backward only through set_status or mark_as_active, which
\* store the status they are given whatever the current one is.
C9_OnlySetStatusMovesBack ==
    [][\A i \in DOMAIN rental_records :
           /\ rental_records'[i].status \in VALID_STATUSES
           /\ rental_records'[i].status # rental_records[i].status =>
                  /\ last'.result
                  /\ rental_records'[i].status = last'.reason
                  /\ last'.op = "check_if_overdue" =>
                         /\ rental_records[i].status = "active"
                         /\ rental_records'[i].status = "overdue"
                  /\ last'.op = "mark_as_completed" => rental_records'[i].status = "completed"
                  /\ last'.op = "mark_as_cancelled" => rental_records'[i].status = "cancelled"
                  /\ last'.op = "mark_as_overdue" => rental_records'[i].status = "overdue"
                  /\ StatusRank(rental_records'[i].status) < StatusRank(rental_records[i].status)
                         => last'.op \in {"set_status", "mark_as_active"}]_vars

\* check_if_overdue has just looked at a completed record whose end date has
\* passed and left it completed, next to a record it did flip to overdue
C9_Witness ==
    /\ last.op = "check_if_overdue" /\ ~last.result
    /\ \E i, j \in DOMAIN rental_records :
           /\ rental_records[i].status = "completed"
           /\ strptime(rental_records[i].end_date) < MaxDay + 1
           /\ rental_records[j].status = "overdue"

\* the period a ledger entry was booked for
EntryPeriod(e) == [start_date |-> e.start_date, end_date |-> e.end_date]

\* C6: of rent_vehicles calls for overlapping periods on one vehicle whose steps
\* interleave, at most one succeeds: a confirmed rent is the only active entry
\* of the vehicle's ledger that overlaps its period, and no ledger holds two
\* overlapping active entries.
C6_AtMostOneWins ==
    /\ \A v \in VehicleIds :
           \A i, j \in ActiveEntries(rental_periods[v]) :
               i # j => ~overlaps_with(EntryPeriod(rental_periods[v][i]),
                                       EntryPeriod(rental_periods[v][j]))
    /\ RentSucceeded(last) =>
           Cardinality({i \in ActiveEntries(rental_periods[last.vehicle_id]) :
                           overlaps_with(last.period,
                                         EntryPeriod(rental_periods[last.vehicle_id][i]))}) = 1

-----------------------------------------------------------------------------
(* C11 *)

\* days between the actual return date and the scheduled end
UnusedDays(p, actual_return_date) == strptime(p.end_date) - strptime(actual_return_date)

-----------------------------------------------------------------------------
(* C16 *)

-----------------------------------------------------------------------------
(* C18 *)

\* C18: the discount depends only on the renter type and the inclusive
\* duration: Individual 0.10 from 7 days on and 0 up to 6 days, Corporate 0.15
\* for every duration, Staff 0; it always lies in [0, 1].
C18_DiscountByTypeAndDuration ==
    last.op = "quote" =>
        LET days == (strptime(last.period.end_date) - strptime(last.period.start_date)) + 1 IN
        /\ last.user_discount \in 0..100
        /\ last.user_type = "Individual" =>
               last.user_discount = (IF days <= 6 THEN 0 ELSE 10)
        /\ last.user_type = "Corporate" => last.user_discount = 15
        /\ last.user_type = "Staff" => last.user_discount = 0

\* an Individual renter quoted for exactly 7 days
C18_Witness ==
    /\ last.op = "quote"
    /\ last.user_type = "Individual"
    /\ strptime(last.period.end_date) - strptime(last.period.start_date) = 6
    /\ last.user_discount = 10

-----------------------------------------------------------------------------
(* C19, C20 *)

\* C19: overlaps_with is reflexive and symmetric over valid periods:
\* p.overlaps_with(p) is True and p.overlaps_with(q) = q.overlaps_with(p).
C19_OverlapReflexiveSymmetric ==
    last.op = "overlaps_with" => (last.p_p /\ (last.p_q <=> last.q_p))

\* two different overlapping periods were compared, q starting after p
C19_Witness ==
    /\ last.op = "overlaps_with"
    /\ strptime(last.p.start_date) < strptime(last.q.start_date)
    /\ last.p_q /\ last.q_p

\* C20: p.overlaps_with(q) is True exactly when the closed intervals share a
\* day; periods that touch on one day overlap, periods on adjacent days do
\* not.
C20_OverlapIffSharedDay ==
    last.op = "overlaps_with" =>
        /\ last.p_q <=> (DaysOf(last.p.start_date, last.p.end_date)
                             \cap DaysOf(last.q.start_date, last.q.end_date) # {})
        /\ strptime(last.p.end_date) = strptime(last.q.start_date) => last.p_q
        /\ strptime(last.p.end_date) + 1 = strptime(last.q.start_date) => ~last.p_q

\* periods on adjacent days were compared and found not to overlap
C20_Witness ==
    /\ last.op = "overlaps_with"
    /\ strptime(last.p.end_date) + 1 = strptime(last.q.start_date)
    /\ ~last.p_q

-----------------------------------------------------------------------------
(* C17 *)

\* the rental a successful rent has just appended to the renter's current list
NewRental(current, o) == current[o.renter_id][Len(current[o.renter_id])]

\* duration x daily rate x (100 - discount percent): the discounted cost of the
\* rental in hundredths of a cent
DiscountedCost(o) ==
    ((strptime(o.period.end_date) - strptime(o.period.start_date)) + 1)
        * DailyRate[o.vehicle_id]
        * (IF UserType[o.renter_id] = "Corporate" THEN 85 ELSE 100)

-----------------------------------------------------------------------------
(* C12, C13 *)

\* a call's result leaves the four lists as they are
LeavesLists(after) ==
    /\ after.rental_periods = rental_periods
    /\ after.vehicle_history = vehicle_history
    /\ after.current_rentals = current_rentals
    /\ after.renter_history = renter_history

\* C12: no rent_vehicles or return_vehicles call raises to its caller: with an
\* unknown vehicle id or renter id the result is False and no ledger or renter
\* list changes, for an unavailable vehicle rent returns False, and a call that
\* an exception ended returns False.
C12_CallsNeverRaise ==
    /\ last.op # "raise"
    /\ \A v \in ErrVehicleIds, r \in ErrRenterIds, p \in RentalPeriods :
           LET rent == try_except("rent", RentVehicles(v, r, p))
               return == try_except("return", ReturnVehicles(v, r, p))
           IN  /\ rent.last.op = "rent" /\ return.last.op = "return"
               /\ (v \notin Range(vehicles) \/ r \notin Range(renters)) =>
                      /\ ~rent.last.result /\ LeavesLists(rent)
                      /\ ~return.last.result /\ LeavesLists(return)
               /\ (v \in Range(vehicles) /\ r \in Range(renters)
                     /\ \E i \in DOMAIN rental_periods[v] :
                            CoveredDays(rental_periods[v][i])
                                \cap DaysOf(p.start_date, p.end_date) # {})
                      => ~rent.last.result
               /\ ExceptionOf(rent.last.reason) # "" => ~rent.last.result
               /\ ExceptionOf(return.last.reason) # "" => ~return.last.result

\* a return has just ended in the handler of Exception, after calls with an
\* unknown id were answered
C12_Witness ==
    /\ last.op = "return" /\ ~last.result /\ last.reason = "unexpected_error"
    /\ "CAR999" \notin Range(vehicles) /\ "X999" \notin Range(renters)

\* C13: return_vehicles on a vehicle with no active ledger entry returns False
\* and changes no vehicle or renter state; the return of a rental that was just
\* returned fails and changes nothing, also when the vehicle holds another
\* active rental.
C13_NoSecondReturn ==
    /\ \A v \in VehicleIds, r \in RenterIds, p \in RentalPeriods :
           ~(\E i \in DOMAIN rental_periods[v] : rental_periods[v][i].status = "active") =>
               LET again == ReturnVehicles(v, r, p) IN
               ~again.last.result /\ LeavesLists(again)
    /\ ReturnSucceeded(last) =>
           LET again == ReturnVehicles(last.vehicle_id, last.renter_id, last.period) IN
           ~again.last.result /\ LeavesLists(again)

\* a return was refused for want of a matching active entry on a vehicle that
\* holds a returned rental and another, active one
C13_Witness ==
    /\ last.op = "return" /\ ~last.result /\ last.reason = "no_matching_period"
    /\ \E i, j \in DOMAIN rental_periods["CAR001"] :
           /\ rental_periods["CAR001"][i].status = "completed"
           /\ rental_periods["CAR001"][j].status = "active"

-----------------------------------------------------------------------------
(* C14, C15 *)

\* the fields of the engine once a call has left the lists of after
Memory(after) ==
    [vehicles |-> vehicles, renters |-> renters,
     rental_periods |-> after.rental_periods, vehicle_history |-> after.vehicle_history,
     current_rentals |-> after.current_rentals, renter_history |-> after.renter_history,
     rental_records |-> rental_records, next_record_id |-> next_record_id]

\* C14: when the save fails at the end of a rent_vehicles or return_vehicles
\* call that changed the lists, the call still returns True and the ledger and
\* the renter lists keep the change: nothing is rolled back.
C14_FailedSaveKeepsChange ==
    \A v \in VehicleIds, r \in RenterIds, p \in RentalPeriods,
       io \in SaveOutcomes \ {"saved"} :
        /\ RentVehicles(v, r, p).last.result =>
               LET call == RentCall(v, r, p, io) IN
               /\ call.last.op = "rent" /\ call.last.result
               /\ Memory(call) = Memory(RentVehicles(v, r, p))
               /\ ~LeavesLists(call)
        /\ ReturnVehicles(v, r, p).last.result =>
               LET call == ReturnCall(v, r, p, io) IN
               /\ call.last.op = "return" /\ call.last.result
               /\ Memory(call) = Memory(ReturnVehicles(v, r, p))
               /\ ~LeavesLists(call)

\* a return has succeeded while its save broke off: the file is unreadable, the
\* returned entry is completed in memory
C14_Witness ==
    /\ ReturnSucceeded(last)
    /\ data_file.state = "truncated"
    /\ \E i \in DOMAIN rental_periods[last.vehicle_id] :
           MatchesPeriod(rental_periods[last.vehicle_id][i], last.period, "completed")

\* C15: after a rent_vehicles or return_vehicles call that returned True and
\* whose save succeeded, load_data of the file into a fresh engine gives the
\* vehicles with their ledgers, the renters with their current and history
\* lists, the rental records and the next-record-id counter of the engine that
\* saved.
C15_LoadRestoresSavedState ==
    \A v \in VehicleIds, r \in RenterIds, p \in RentalPeriods :
        /\ LET call == RentCall(v, r, p, "saved") IN
           call.last.result => load_data(call.data_file) = Memory(call)
        /\ LET call == ReturnCall(v, r, p, "saved") IN
           call.last.result => load_data(call.data_file) = Memory(call)

\* a rent has succeeded and saved an engine that holds a rental record and a
\* counter past 1
C15_Witness ==
    /\ RentSucceeded(last)
    /\ data_file = save_data(Unchanged(last))
    /\ rental_records # <<>> /\ next_record_id > 1
    /\ load_data(data_file).next_record_id = next_record_id

-----------------------------------------------------------------------------
(* C21 *)

\* C21: every RentalPeriod has start <= end and a duration of as many days as
\* the interval holds, at least 1 and exactly 1 when start = end, after
\* construction and after any setter calls; the constructor and the setters
\* raise exactly when the call would put start after end, and a setter that
\* raised leaves both dates as they were.
C21_PeriodStaysValid ==
    /\ \A x \in {last.p, last.q} :
           /\ strptime(x.start_date) <= strptime(x.end_date)
           /\ calculate_duration(x) = Cardinality(DaysOf(x.start_date, x.end_date))
           /\ calculate_duration(x) >= 1
           /\ strptime(x.start_date) = strptime(x.end_date) => calculate_duration(x) = 1
    /\ \A d \in DateStrings :
           /\ SetStartDate(last.p, d).raised <=> DaysOf(d, last.p.end_date) = {}
           /\ SetEndDate(last.p, d).raised <=> DaysOf(last.p.start_date, d) = {}
           /\ SetStartDate(last.p, d).raised => SetStartDate(last.p, d).p = last.p
           /\ SetEndDate(last.p, d).raised => SetEndDate(last.p, d).p = last.p
           /\ ~SetStartDate(last.p, d).raised =>
                  SetStartDate(last.p, d).p = [start_date |-> d, end_date |-> last.p.end_date]
    /\ \A a, b \in DateStrings :
           [start_date |-> a, end_date |-> b] \in RentalPeriods <=> DaysOf(a, b) # {}

\* a call on a one-day period was refused after a setter had moved a date
C21_Witness ==
    /\ last.op = "InvalidRentalPeriodError"
    /\ strptime(last.p.start_date) = strptime(last.p.end_date)
    /\ strptime(last.p.start_date) > 1
    /\ calculate_duration(last.p) = 1

-----------------------------------------------------------------------------
(* C22, C24, C29 *)

Distinct(list) == \A i, j \in DOMAIN list : i # j => list[i] # list[j]

\* C22: add_vehicles (add_users) with an id the engine already holds raises
\* DuplicateVehicleError (DuplicateRenterError) and leaves the list as it was,
\* so the vehicle ids stay pairwise distinct and the renter ids stay pairwise
\* distinct whatever is added.
C22_NoDuplicateIds ==
    /\ Distinct(vehicles) /\ Distinct(renters)
    /\ \A v \in Range(vehicles) :
           /\ AddVehicles(v).raised = "DuplicateVehicleError"
           /\ AddVehicles(v).vehicles = vehicles
    /\ \A r \in Range(renters) :
           /\ AddUsers(r).raised = "DuplicateRenterError"
           /\ AddUsers(r).renters = renters
    /\ (last.op = "add_vehicles" /\ ~last.result) =>
           last.reason = "DuplicateVehicleError" /\ last.vehicle_id \in Range(vehicles)
    /\ (last.op = "add_users" /\ ~last.result) =>
           last.reason = "DuplicateRenterError" /\ last.renter_id \in Range(renters)

\* CAR001 was deleted and added again, and a further add of it was refused
C22_Witness ==
    /\ last.op = "add_vehicles" /\ ~last.result
    /\ last.vehicle_id = "CAR001"
    /\ vehicles = <<"CAR002", "CAR001">>

\* C24: a vehicle leaves the vehicle list only while its ledger holds no
\* active entry, and a delete request for a vehicle that is currently rented
\* leaves the vehicle list as it was.
C24_DeleteOnlyUnrented ==
    [][ /\ \A v \in Range(vehicles) :
               v \notin Range(vehicles') => ~is_currently_rented(rental_periods[v])
        /\ (last'.op = "staff_delete_vehicle" /\ last'.reason = "currently_rented") =>
               /\ vehicles' = vehicles
               /\ is_currently_rented(rental_periods[last'.vehicle_id]) ]_vars

\* the delete of CAR001 was refused while a renter holds it
C24_Witness ==
    /\ last.op = "staff_delete_vehicle" /\ last.reason = "currently_rented"
    /\ last.vehicle_id = "CAR001"
    /\ "CAR001" \in Range(vehicles)
    /\ \E k \in DOMAIN current_rentals["C001"] :
           current_rentals["C001"][k].vehicle_id = "CAR001"

\* C29: every active entry of a listed vehicle's ledger names a renter of the
\* renter list, and every current rental of a listed renter names a vehicle of
\* the vehicle list.
C29_EntriesNameListedParties ==
    /\ \A v \in Range(vehicles) : \A i \in DOMAIN rental_periods[v] :
           rental_periods[v][i].status = "active" =>
               rental_periods[v][i].renter_id \in Range(renters)
    /\ \A r \in Range(renters) : \A k \in DOMAIN current_rentals[r] :
           current_rentals[r][k].vehicle_id \in Range(vehicles)

-----------------------------------------------------------------------------
(* C23 *)

\* C23: no rent_vehicles or return_vehicles call removes an entry of a
\* vehicle's ledger: across every step the ledger is at least as long as it
\* was and every entry it held keeps its start and its end date; a successful
\* return leaves the entry of the returned period in the ledger as completed.
C23_LedgerEntriesStay ==
    [][ /\ \A v \in VehicleIds :
               /\ Len(rental_periods'[v]) >= Len(rental_periods[v])
               /\ \A i \in DOMAIN rental_periods[v] :
                      /\ rental_periods'[v][i].start_date = rental_periods[v][i].start_date
                      /\ rental_periods'[v][i].end_date = rental_periods[v][i].end_date
        /\ (last'.op = "return" /\ last'.result) =>
               \E i \in DOMAIN rental_periods'[last'.vehicle_id] :
                   /\ MatchesPeriod(rental_periods'[last'.vehicle_id][i], last'.period, "completed")
                   /\ i \in DOMAIN rental_periods[last'.vehicle_id]
                   /\ rental_periods[last'.vehicle_id][i].status = "active" ]_vars

\* a rental was returned and its entry is still in the ledger, completed, next
\* to the entry of a later rental
C23_Witness ==
    /\ last.op = "return" /\ last.result
    /\ Len(rental_periods[last.vehicle_id]) = 2
    /\ MatchesPeriod(rental_periods[last.vehicle_id][1], last.period, "completed")

-----------------------------------------------------------------------------
(* C25 *)

\* C25: authenticate_user(id, secret) returns the renter with that id exactly
\* when the renter list holds the id and secret is the password that user,
\* Individual, Corporate or Staff, was constructed with; otherwise it returns
\* None; and the call leaves every list of the engine as it was.
C25_AuthenticatesStoredPassword ==
    [][ last'.op = "authenticate_user" =>
            /\ IF /\ last'.period.asked \in Range(renters)
                  /\ last'.reason = PasswordArg[last'.period.asked]
               THEN last'.result /\ last'.renter_id = last'.period.asked
               ELSE ~last'.result /\ last'.renter_id = ""
            /\ UNCHANGED <<vehicles, renters, rental_periods, vehicle_history,
                           current_rentals, renter_history, rental_records,
                           next_record_id, data_file>> ]_vars

\* the staff user, added to the renter list, logged in with the password given
\* at construction
C25_Witness ==
    /\ last.op = "authenticate_user" /\ last.result
    /\ last.renter_id = "S001" /\ last.reason = PasswordArg["S001"]
    /\ "S001" \in Range(renters)

-----------------------------------------------------------------------------
(* C26 *)

\* C26: no RentalRecord holds a negative rental_cost, whether the cost came
\* from the constructor or from set_rental_cost.
C26_CostNeverNegative ==
    \A i \in DOMAIN rental_records : rental_records[i].rental_cost >= 0

-----------------------------------------------------------------------------
(* C27, C30 *)

\* C27: on every ledger that holds an active entry for p, and for every
\* actual return date d, remove_rental(p, d) followed by
\* restore_active_rental(p) gives back the ledger and the rental history the
\* vehicle had before.
C27_RestoreInvertsRemove ==
    \A v \in VehicleIds : \A p \in RentalPeriods, d \in ReturnDates :
        LET removed == remove_rental(rental_periods[v], vehicle_history[v], p, d)
            restored == restore_active_rental(removed[1], removed[2], p)
        IN  removed[3] =>
                /\ restored[3]
                /\ restored[1] = rental_periods[v]
                /\ restored[2] = vehicle_history[v]

\* C30: once remove_rental(p, d) has completed an entry, with whatever date
\* d, no period that contains p's start date is available.
C30_CompletedEntryBlocksStart ==
    \A v \in VehicleIds : \A p \in RentalPeriods, d \in ReturnDates :
        LET removed == remove_rental(rental_periods[v], vehicle_history[v], p, d) IN
        removed[3] =>
            \A q \in RentalPeriods :
                (strptime(q.start_date) <= strptime(p.start_date)
                 /\ strptime(p.start_date) <= strptime(q.end_date))
                    => ~is_available(removed[1], q)

-----------------------------------------------------------------------------
(* C28 *)

\* C28: whatever calls came before, every rental a renter lists as current
\* can be returned: return_vehicles on its vehicle, by that renter, for its
\* period, returns True.
C28_CurrentRentalsReturnable ==
    \A r \in RenterIds : \A k \in DOMAIN current_rentals[r] :
        LET c == current_rentals[r][k] IN
        ReturnVehicles(c.vehicle_id, r,
                       [start_date |-> c.start_date, end_date |-> c.end_date]).last.result
====
